---- MODULE Spec2Model ----
(***************************************************************************)
(* The session timestamp store of sudo-rs (src/sudo/lib/system/            *)
(* timestamp.rs): the record codec, the lockable byte stream it is kept    *)
(* in, and the operations of SessionRecordFile (new, touch, create,        *)
(* disable, reset) called by several processes on one file.                *)
(*                                                                         *)
(* The file is a sequence of bytes with the field widths of the source.    *)
(* A SystemTime is a number of clock ticks; its 16-byte encoding lives in  *)
(* system/time.rs and is modelled as a fixed-width little-endian integer.  *)
(***************************************************************************)
EXTENDS Integers, Sequences, FiniteSets, TLC

\* ------------------------------------------------------------ bounds

\* the clock runs from 0 to MaxTime
MaxTime == 2
\* the timeout every process opens the store with
Timeout == 1

\* ------------------------------------------------------------ constants

MAGIC_NUM == 20688
FILE_VERSION == 1
SIZE_OF_U16 == 2
VERSION_OFFSET == SIZE_OF_U16
FIRST_RECORD_OFFSET == VERSION_OFFSET + SIZE_OF_U16
SIZE_OF_TS == 16
SIZE_OF_BOOL == 1
\* MOD_OFFSET variant: the flag byte forgotten
MOD_OFFSET_ts == SIZE_OF_TS
MOD_OFFSET == SIZE_OF_TS + SIZE_OF_BOOL
SIZE_OF_DEV_T == 8
SIZE_OF_PID_T == 4
SIZE_OF_UID_T == 4
TTY_DISCRIMINANT == 1
PPID_DISCRIMINANT == 2
BOOL_TRUE == 255
BOOL_FALSE == 0

\* Option: None, Some(x)
None == <<>>
Some(x) == <<x>>

\* ------------------------------------------------------------ bytes

\* n.to_le_bytes() for an unsigned n of w bytes
Zeros(n) == [i \in 1..n |-> 0]

RECURSIVE to_le_bytes(_, _)
to_le_bytes(n, w) ==
    IF n = 0 THEN Zeros(w)
    ELSE IF w = 0 THEN <<>>
    ELSE <<n % 256>> \o to_le_bytes(n \div 256, w - 1)

\* T::from_le_bytes(bs): the sum of bs[i] * 256^(i-1), taken over the bytes
\* that are not zero. A value of 2^31 or more, which no record written by
\* the processes of the model holds, stands as its bytes.
RECURSIVE le_sum(_, _)
le_sum(bs, nz) ==
    IF nz = {} THEN 0
    ELSE LET i == CHOOSE j \in nz : TRUE
         IN  bs[i] * 256^(i - 1) + le_sum(bs, nz \ {i})
Wide(bs) == \E i \in 1..Len(bs) : bs[i] # 0 /\ (i > 4 \/ (i = 4 /\ bs[i] >= 128))
from_le_bytes(bs) ==
    IF Wide(bs) THEN bs ELSE le_sum(bs, {i \in 1..Len(bs) : bs[i] # 0})

\* SystemTime::encode / SystemTime::decode: a fixed width of SIZE_OF_TS bytes
EncodeTime(t) == to_le_bytes(t, SIZE_OF_TS)
DecodeTime(bs) == from_le_bytes(bs)

\* ------------------------------------------------------------ record codec

TTY(dev, pid, t) ==
    [variant |-> "TTY", tty_device |-> dev, session_pid |-> pid, init_time |-> t]
PPID(pid, t) == [variant |-> "PPID", group_pid |-> pid, init_time |-> t]

\* RecordScope::encode
ScopeEncode(scope) ==
    IF scope.variant = "TTY"
    THEN <<TTY_DISCRIMINANT>> \o to_le_bytes(scope.tty_device, SIZE_OF_DEV_T)
             \o to_le_bytes(scope.session_pid, SIZE_OF_PID_T)
             \o EncodeTime(scope.init_time)
    ELSE <<PPID_DISCRIMINANT>> \o to_le_bytes(scope.group_pid, SIZE_OF_PID_T)
             \o EncodeTime(scope.init_time)

\* a read cursor over a byte slice: read_exact of n bytes at position pos
CanRead(data, pos, n) == pos + n <= Len(data)
Slice(data, pos, n) == SubSeq(data, pos + 1, pos + n)

DecodeErr == [ok |-> FALSE]

\* RecordScope::decode, reading at position pos of data; pos is the position
\* after the scope when ok
ScopeDecode(data, pos) ==
    IF ~CanRead(data, pos, 1) THEN DecodeErr
    ELSE LET x == data[pos + 1]
             p1 == pos + 1
         IN  IF x = TTY_DISCRIMINANT
             THEN LET p2 == p1 + SIZE_OF_DEV_T
                      p3 == p2 + SIZE_OF_PID_T
                  IN  IF ~CanRead(data, p1, SIZE_OF_DEV_T) THEN DecodeErr
                      ELSE IF ~CanRead(data, p2, SIZE_OF_PID_T) THEN DecodeErr
                      ELSE IF ~CanRead(data, p3, SIZE_OF_TS) THEN DecodeErr
                      ELSE [ok |-> TRUE, pos |-> p3 + SIZE_OF_TS,
                            val |-> TTY(from_le_bytes(Slice(data, p1, SIZE_OF_DEV_T)),
                                        from_le_bytes(Slice(data, p2, SIZE_OF_PID_T)),
                                        DecodeTime(Slice(data, p3, SIZE_OF_TS)))]
             ELSE IF x = PPID_DISCRIMINANT
             THEN LET p2 == p1 + SIZE_OF_PID_T
                  IN  IF ~CanRead(data, p1, SIZE_OF_PID_T) THEN DecodeErr
                      ELSE IF ~CanRead(data, p2, SIZE_OF_TS) THEN DecodeErr
                      ELSE [ok |-> TRUE, pos |-> p2 + SIZE_OF_TS,
                            val |-> PPID(from_le_bytes(Slice(data, p1, SIZE_OF_PID_T)),
                                         DecodeTime(Slice(data, p2, SIZE_OF_TS)))]
             ELSE DecodeErr

\* write_bool variant: true is written as 1
write_bool_one(b) == <<IF b THEN 1 ELSE BOOL_FALSE>>
\* write_bool
write_bool(b) == <<IF b THEN BOOL_TRUE ELSE BOOL_FALSE>>

\* SessionRecord::init
SessionRecord(scope, auth_user, enabled, timestamp) ==
    [scope |-> scope, auth_user |-> auth_user, timestamp |-> timestamp,
     enabled |-> enabled]

\* SessionRecord::encode into an empty vector (as_bytes)
as_bytes(r) ==
    ScopeEncode(r.scope) \o to_le_bytes(r.auth_user, SIZE_OF_UID_T)
        \o EncodeTime(r.timestamp) \o write_bool(r.enabled)

\* SessionRecord::decode variant: every flag byte but 0x00 reads as true
RecordDecode_lenient(data) ==
    LET s == ScopeDecode(data, 0)
    IN  IF ~s.ok THEN DecodeErr
        ELSE LET p1 == s.pos
                 p2 == p1 + SIZE_OF_UID_T
                 p3 == p2 + SIZE_OF_TS
             IN  IF ~CanRead(data, p1, SIZE_OF_UID_T) THEN DecodeErr
                 ELSE IF ~CanRead(data, p2, SIZE_OF_TS) THEN DecodeErr
                 ELSE IF ~CanRead(data, p3, SIZE_OF_BOOL) THEN DecodeErr
                 ELSE LET b == from_le_bytes(Slice(data, p3, SIZE_OF_BOOL))
                      IN  IF FALSE THEN DecodeErr
                          ELSE [ok |-> TRUE, pos |-> p3 + SIZE_OF_BOOL,
                                val |-> SessionRecord(
                                    s.val,
                                    from_le_bytes(Slice(data, p1, SIZE_OF_UID_T)),
                                    b # BOOL_FALSE,
                                    DecodeTime(Slice(data, p2, SIZE_OF_TS)))]

\* SessionRecord::decode at position 0 of data
RecordDecode(data) ==
    LET s == ScopeDecode(data, 0)
    IN  IF ~s.ok THEN DecodeErr
        ELSE LET p1 == s.pos
                 p2 == p1 + SIZE_OF_UID_T
                 p3 == p2 + SIZE_OF_TS
             IN  IF ~CanRead(data, p1, SIZE_OF_UID_T) THEN DecodeErr
                 ELSE IF ~CanRead(data, p2, SIZE_OF_TS) THEN DecodeErr
                 ELSE IF ~CanRead(data, p3, SIZE_OF_BOOL) THEN DecodeErr
                 ELSE LET b == from_le_bytes(Slice(data, p3, SIZE_OF_BOOL))
                      IN  IF b \notin {BOOL_TRUE, BOOL_FALSE} THEN DecodeErr
                          ELSE [ok |-> TRUE, pos |-> p3 + SIZE_OF_BOOL,
                                val |-> SessionRecord(
                                    s.val,
                                    from_le_bytes(Slice(data, p1, SIZE_OF_UID_T)),
                                    b = BOOL_TRUE,
                                    DecodeTime(Slice(data, p2, SIZE_OF_TS)))]

\* from_bytes variant: bytes left over after the record are accepted
from_bytes_prefix(data) ==
    LET d == RecordDecode(data)
    IN  IF ~d.ok THEN DecodeErr ELSE [ok |-> TRUE, val |-> d.val]

\* SessionRecord::from_bytes: the slice must be consumed whole
from_bytes(data) ==
    LET d == RecordDecode(data)
    IN  IF ~d.ok THEN DecodeErr
        ELSE IF d.pos # Len(data) THEN DecodeErr
        ELSE [ok |-> TRUE, val |-> d.val]

\* SessionRecord::matches
\* matches variant: the scope's init_time is not compared
matches_any_init(r, scope, auth_user) ==
    /\ r.auth_user = auth_user
    /\ r.scope.variant = scope.variant
    /\ [r.scope EXCEPT !.init_time = 0] = [scope EXCEPT !.init_time = 0]

\* matches variant: the user is not compared
matches_any_user(r, scope, auth_user) == r.scope = scope

\* SessionRecord::matches
matches(r, scope, auth_user) == r.scope = scope /\ r.auth_user = auth_user

\* written_between variants: the lower bound exclusive; no upper bound; no
\* lower bound
written_between_after(r, early_time, later_time) ==
    early_time <= later_time /\ r.timestamp > early_time
        /\ r.timestamp <= later_time
written_between_since(r, early_time, later_time) ==
    early_time <= later_time /\ r.timestamp >= early_time
written_between_until(r, early_time, later_time) ==
    early_time <= later_time /\ r.timestamp <= later_time

\* SessionRecord::written_between
written_between(r, early_time, later_time) ==
    early_time <= later_time /\ r.timestamp >= early_time
        /\ r.timestamp <= later_time

\* ------------------------------------------------------------ the stream

\* One process's view of the stream while it runs an operation: the bytes of
\* the file, the position of its descriptor, whether it holds the exclusive
\* lock, and the bookkeeping of the calls made.
\*   fuel   calls that still succeed before one fails (-1: none fails)
\*   calls  number of I/O and clock calls made
\*   err    "none", "io" (an underlying call failed: the operation returns it
\*          with ?) or "format" (next_record's InvalidInput)
\*   bare   a stream access was made without holding the lock
\*   log    the messages logged, as <<level, message>>
\* A call on a stream whose operation already returned (err # "none") is not
\* made: this is the ? operator.
Live(io) == io.err = "none"
Enter(io) ==
    [io EXCEPT !.calls = @ + 1, !.fuel = IF @ > 0 THEN @ - 1 ELSE @]
Fail(io) == [io EXCEPT !.calls = @ + 1, !.fuel = -1, !.err = "io"]
Sys(io, done) == IF ~Live(io) THEN io ELSE IF io.fuel = 0 THEN Fail(io) ELSE done
Access(io) == [Enter(io) EXCEPT !.bare = @ \/ ~io.held]

\* Lockable::lock_exclusive, Lockable::unlock
lock_exclusive(io) == Sys(io, [Enter(io) EXCEPT !.held = TRUE])

\* unlock variant: called on the error return too
unlock_on_error(io) ==
    IF Live(io) THEN Sys(io, [Enter(io) EXCEPT !.held = FALSE])
    ELSE [io EXCEPT !.calls = @ + 1, !.held = FALSE]

unlock(io) == Sys(io, [Enter(io) EXCEPT !.held = FALSE])

\* Seek::seek(SeekFrom::Start(n)), SeekFrom::Current(d), SeekFrom::End(0),
\* Seek::rewind, Seek::stream_position
seek_start(io, n) == Sys(io, [Access(io) EXCEPT !.pos = n])
seek_current(io, d) == Sys(io, [Access(io) EXCEPT !.pos = @ + d])
\* SeekFrom::End(0) variant: the position of the first record
seek_end_first(io) == seek_start(io, FIRST_RECORD_OFFSET)
seek_end(io) == Sys(io, [Access(io) EXCEPT !.pos = Len(io.data)])
rewind(io) == seek_start(io, 0)
stream_position(io) == Sys(io, Access(io))

\* SetLength::set_len: truncate, or extend with zero bytes; the position stays
set_len(io, n) ==
    Sys(io, [Access(io) EXCEPT !.data =
        IF n <= Len(@) THEN SubSeq(@, 1, n) ELSE @ \o Zeros(n - Len(@))])

\* Write::write_all at the position: overwrites, extends, zero-fills a gap
Overwrite(data, pos, bytes) ==
    (IF pos <= Len(data) THEN SubSeq(data, 1, pos)
                         ELSE data \o Zeros(pos - Len(data)))
        \o bytes \o SubSeq(data, pos + Len(bytes) + 1, Len(data))
write_all(io, bytes) ==
    Sys(io, [Access(io) EXCEPT !.data = Overwrite(@, io.pos, bytes),
                               !.pos = @ + Len(bytes)])

\* Read::read_exact of n bytes: eof when fewer than n bytes are left (the
\* position is then at the end of the stream)
read_exact(io, n) ==
    IF ~Live(io) \/ io.fuel = 0
    THEN [io |-> Sys(io, io), eof |-> FALSE, buf |-> <<>>]
    ELSE IF CanRead(io.data, io.pos, n)
    THEN [io |-> [Access(io) EXCEPT !.pos = @ + n], eof |-> FALSE,
          buf |-> Slice(io.data, io.pos, n)]
    ELSE [io |-> [Access(io) EXCEPT !.pos = IF @ > Len(io.data) THEN @ ELSE Len(io.data)],
          eof |-> TRUE, buf |-> <<>>]

\* SystemTime::now()?: the caller holds the value read
clock_now(io) == Sys(io, Enter(io))

\* auth_info! variant: the message is logged at error level
auth_info_error(io, msg) ==
    IF Live(io) THEN [io EXCEPT !.log = Append(@, <<"error", msg>>)] ELSE io

\* auth_info!
auth_info(io, msg) == IF Live(io) THEN [io EXCEPT !.log = Append(@, <<"info", msg>>)] ELSE io

\* ------------------------------------------------------------ SessionRecordFile

\* read_magic and read_version: Some(u16), or None at end of file
read_u16(io) ==
    LET r == read_exact(io, SIZE_OF_U16)
    IN  [io |-> r.io, val |-> IF r.eof THEN None ELSE Some(from_le_bytes(r.buf))]
read_magic(io) == read_u16(io)
\* read_version variant: the version is read where the magic number is
read_version_rewound(io) == read_u16(rewind(io))
read_version(io) == read_u16(io)

\* init(offset, must_lock = true) in the three steps another process can tell
\* apart by reading the header: the file emptied, the magic number written,
\* the version written
\* init variant: the file is not emptied
init_truncate_kept(io) == rewind(lock_exclusive(io))
init_truncate(io) == rewind(set_len(lock_exclusive(io), 0))
init_magic(io) == write_all(io, to_le_bytes(MAGIC_NUM, SIZE_OF_U16))
\* init variant: the version is not written
init_version_unwritten(io, offset) == unlock(seek_start(io, offset))
init_version(io, offset) ==
    unlock(seek_start(write_all(io, to_le_bytes(FILE_VERSION, SIZE_OF_U16)), offset))
init(io, offset) == init_version(init_magic(init_truncate(io)), offset)

\* seek_to_first_record variant: the scan starts where the descriptor is
seek_to_first_record_here(io) == seek_current(io, 0)
\* seek_to_first_record
seek_to_first_record(io) == seek_start(io, FIRST_RECORD_OFFSET)

\* next_record: rec is the record read, or None at the end of the list; in
\* four parts, on the position the record starts at, the length prefix read
\* (l), the body read (b) and the record decoded (d)
next_record_decoded(curr_pos, b, d) ==
    IF ~d.ok
    THEN [io |-> set_len(auth_info(b.io, "invalid record"), curr_pos),
          rec |-> None]
    ELSE [io |-> b.io, rec |-> Some(d.val)]
next_record_body(curr_pos, b) ==
    IF ~Live(b.io) THEN [io |-> b.io, rec |-> None]
    ELSE IF b.eof
    THEN [io |-> set_len(auth_info(b.io, "incomplete record"), curr_pos),
          rec |-> None]
    ELSE next_record_decoded(curr_pos, b, from_bytes(b.buf))
\* next_record variant: a zero length is treated as an invalid record
next_record_length_healing(curr_pos, l, record_length) ==
    IF record_length = 0
    THEN [io |-> set_len(auth_info(l.io, "invalid record"), curr_pos),
          rec |-> None]
    ELSE next_record_body(curr_pos, read_exact(l.io, record_length))
next_record_length(curr_pos, l, record_length) ==
    IF record_length = 0
    THEN [io |-> [l.io EXCEPT !.err = "format"], rec |-> None]
    ELSE next_record_body(curr_pos, read_exact(l.io, record_length))
next_record_prefix(curr_pos, l) ==
    IF ~Live(l.io) THEN [io |-> l.io, rec |-> None]
    ELSE IF l.eof THEN [io |-> l.io, rec |-> None]
    ELSE next_record_length(curr_pos, l, from_le_bytes(l.buf))
next_record(io) ==
    next_record_prefix(io.pos, read_exact(stream_position(io), SIZE_OF_U16))

\* write_record variant: the length written counts its own two bytes
write_record_inclusive(io, record) ==
    LET bytes == as_bytes(record)
    IN  write_all(write_all(io, to_le_bytes(Len(bytes) + SIZE_OF_U16, SIZE_OF_U16)),
                  bytes)

\* write_record (a record of the model never exceeds u16::MAX bytes)
write_record(io, record) ==
    LET bytes == as_bytes(record)
    IN  write_all(write_all(io, to_le_bytes(Len(bytes), SIZE_OF_U16)), bytes)

\* what an operation returns: its result, or with ? the error err
Returned(io, res) ==
    [io |-> io, res |-> IF Live(io) THEN res ELSE [kind |-> "Err", cause |-> io.err]]

\* touch: now is the value of the first SystemTime::now(), new_time that of
\* the second; touch_next is the body of the loop, on what next_record
\* returned
RECURSIVE touch_scan(_, _, _, _, _)

\* touch variant: the enabled flag of a record is not looked at
touch_next_any(n, scope, auth_user, now, new_time) ==
    IF ~Live(n.io) THEN Returned(n.io, None)
    ELSE IF n.rec = None
    THEN Returned(unlock(n.io), [kind |-> "NotFound"])
    ELSE IF matches(n.rec[1], scope, auth_user)
    THEN IF written_between(n.rec[1], now - Timeout, now)
         THEN Returned(
                unlock(seek_current(
                    write_all(clock_now(seek_current(clock_now(n.io), -MOD_OFFSET)),
                              EncodeTime(new_time)),
                    SIZE_OF_BOOL)),
                [kind |-> "Updated", old_time |-> n.rec[1].timestamp,
                 new_time |-> new_time])
         ELSE Returned(unlock(clock_now(n.io)),
                       [kind |-> "Outdated", time |-> n.rec[1].timestamp])
    ELSE touch_scan(n.io, scope, auth_user, now, new_time)

\* touch variant: the seek back passes over the timestamp only
touch_next_shifted(n, scope, auth_user, now, new_time) ==
    IF ~Live(n.io) THEN Returned(n.io, None)
    ELSE IF n.rec = None
    THEN Returned(unlock(n.io), [kind |-> "NotFound"])
    ELSE IF n.rec[1].enabled /\ matches(n.rec[1], scope, auth_user)
    THEN IF written_between(n.rec[1], now - Timeout, now)
         THEN Returned(
                unlock(seek_current(
                    write_all(clock_now(seek_current(clock_now(n.io), -SIZE_OF_TS)),
                              EncodeTime(new_time)),
                    SIZE_OF_BOOL)),
                [kind |-> "Updated", old_time |-> n.rec[1].timestamp,
                 new_time |-> new_time])
         ELSE Returned(unlock(clock_now(n.io)),
                       [kind |-> "Outdated", time |-> n.rec[1].timestamp])
    ELSE touch_scan(n.io, scope, auth_user, now, new_time)

touch_next(n, scope, auth_user, now, new_time) ==
    IF ~Live(n.io) THEN Returned(n.io, None)
    ELSE IF n.rec = None
    THEN Returned(unlock(n.io), [kind |-> "NotFound"])
    ELSE IF n.rec[1].enabled /\ matches(n.rec[1], scope, auth_user)
    THEN IF written_between(n.rec[1], now - Timeout, now)
         THEN Returned(
                unlock(seek_current(
                    write_all(clock_now(seek_current(clock_now(n.io), -MOD_OFFSET)),
                              EncodeTime(new_time)),
                    SIZE_OF_BOOL)),
                [kind |-> "Updated", old_time |-> n.rec[1].timestamp,
                 new_time |-> new_time])
         ELSE Returned(unlock(clock_now(n.io)),
                       [kind |-> "Outdated", time |-> n.rec[1].timestamp])
    ELSE touch_scan(n.io, scope, auth_user, now, new_time)

touch_scan(io, scope, auth_user, now, new_time) ==
    touch_next(next_record(io), scope, auth_user, now, new_time)

\* touch variant: the lock is not taken
touch_unlocked(io, scope, auth_user, now, new_time) ==
    touch_scan(seek_to_first_record(io), scope, auth_user, now, new_time)

touch(io, scope, auth_user, now, new_time) ==
    touch_scan(seek_to_first_record(lock_exclusive(io)), scope, auth_user,
               now, new_time)

\* disable; auth_user is None or Some(user)
RECURSIVE disable_scan(_, _, _)

\* disable variant: the user given is not looked at
disable_next_all(n, scope, auth_user) ==
    IF ~Live(n.io) THEN Returned(n.io, None)
    ELSE IF n.rec = None THEN Returned(unlock(n.io), [kind |-> "Ok"])
    ELSE IF n.rec[1].scope = scope
    THEN disable_scan(write_all(seek_current(n.io, -SIZE_OF_BOOL), write_bool(FALSE)),
                      scope, auth_user)
    ELSE disable_scan(n.io, scope, auth_user)

disable_next(n, scope, auth_user) ==
    IF ~Live(n.io) THEN Returned(n.io, None)
    ELSE IF n.rec = None THEN Returned(unlock(n.io), [kind |-> "Ok"])
    ELSE IF (IF auth_user # None THEN matches(n.rec[1], scope, auth_user[1])
                                 ELSE n.rec[1].scope = scope)
    THEN disable_scan(write_all(seek_current(n.io, -SIZE_OF_BOOL), write_bool(FALSE)),
                      scope, auth_user)
    ELSE disable_scan(n.io, scope, auth_user)

disable_scan(io, scope, auth_user) ==
    disable_next(next_record(io), scope, auth_user)

disable(io, scope, auth_user) ==
    disable_scan(seek_to_first_record(lock_exclusive(io)), scope, auth_user)

\* create: now is the value SystemTime::now() returns
RECURSIVE create_scan(_, _, _, _)

\* create variant: a disabled record is passed over
create_next_enabled(n, scope, auth_user, now) ==
    IF ~Live(n.io) THEN Returned(n.io, None)
    ELSE IF n.rec = None
    THEN Returned(
           unlock(write_record(seek_end(clock_now(n.io)),
                               SessionRecord(scope, auth_user, TRUE, now))),
           [kind |-> "Created", time |-> now])
    ELSE IF n.rec[1].enabled /\ matches(n.rec[1], scope, auth_user)
    THEN Returned(
           unlock(write_all(
               write_all(clock_now(seek_current(n.io, -MOD_OFFSET)),
                         EncodeTime(now)),
               write_bool(TRUE))),
           [kind |-> "Updated", old_time |-> n.rec[1].timestamp,
            new_time |-> now])
    ELSE create_scan(n.io, scope, auth_user, now)

\* create variant: a record outside the validity window is passed over
create_next_windowed(n, scope, auth_user, now) ==
    IF ~Live(n.io) THEN Returned(n.io, None)
    ELSE IF n.rec = None
    THEN Returned(
           unlock(write_record(seek_end(clock_now(n.io)),
                               SessionRecord(scope, auth_user, TRUE, now))),
           [kind |-> "Created", time |-> now])
    ELSE IF /\ matches(n.rec[1], scope, auth_user)
            /\ written_between(n.rec[1], now - Timeout, now)
    THEN Returned(
           unlock(write_all(
               write_all(clock_now(seek_current(n.io, -MOD_OFFSET)),
                         EncodeTime(now)),
               write_bool(TRUE))),
           [kind |-> "Updated", old_time |-> n.rec[1].timestamp,
            new_time |-> now])
    ELSE create_scan(n.io, scope, auth_user, now)

create_next(n, scope, auth_user, now) ==
    IF ~Live(n.io) THEN Returned(n.io, None)
    ELSE IF n.rec = None
    THEN Returned(
           unlock(write_record(seek_end(clock_now(n.io)),
                               SessionRecord(scope, auth_user, TRUE, now))),
           [kind |-> "Created", time |-> now])
    ELSE IF matches(n.rec[1], scope, auth_user)
    THEN Returned(
           unlock(write_all(
               write_all(clock_now(seek_current(n.io, -MOD_OFFSET)),
                         EncodeTime(now)),
               write_bool(TRUE))),
           [kind |-> "Updated", old_time |-> n.rec[1].timestamp,
            new_time |-> now])
    ELSE create_scan(n.io, scope, auth_user, now)

create_scan(io, scope, auth_user, now) ==
    create_next(next_record(io), scope, auth_user, now)

create(io, scope, auth_user, now) ==
    create_scan(seek_to_first_record(lock_exclusive(io)), scope, auth_user, now)

\* ------------------------------------------------------------ the system

\* the processes that open the store of one user
Procs == {"p1", "p2"}

\* the sessions and the users authenticated against
TtyScope == TTY(34816, 1234, 0)
PpidScope == PPID(1234, 0)
Scopes == {TtyScope, PpidScope}
Users == {1000, 1001}
\* the pairs that authenticate: create is called for these
Authenticating == {<<TtyScope, 1000>>, <<PpidScope, 1001>>}

VARIABLES
    file,     \* the bytes of the store file
    lock,     \* the process holding the exclusive lock, or None
    pc,       \* where each process is: "closed", in new ("init_lock",
              \* "init_magic", "init_version", "read_version") or "ready"
    pos,      \* the position of each process's descriptor
    ctx,      \* the init call a process is in: its offset, what follows it
    clock,    \* the monotonic clock
    last,     \* the call that just returned, its arguments and its result,
              \* until its caller has taken them (NoCall)
    budget,   \* the calls on an open store still to be made (Unlimited: any
              \* number)
    auth      \* history, per (scope, user): "valid" with the time create or
              \* touch last wrote as its timestamp; "disabled" since a
              \* disable covered that and until a create; "none" when
              \* neither wrote it, or since init emptied the file

vars == <<file, lock, pc, pos, ctx, clock, last, budget, auth>>

Keys == Scopes \X Users
Unlimited == 0 - 1
Spent(b) == IF b = Unlimited THEN b ELSE b - 1
NoAuth == [state |-> "none", time |-> 0]
Valid(t) == [state |-> "valid", time |-> t]
Disabled == [state |-> "disabled", time |-> 0]
\* init emptied the file
Emptied(a) == [k \in Keys |-> NoAuth]
NoCtx == [offset |-> 0, then |-> "ready", op |-> "new", log |-> <<>>, found |-> TRUE,
          bare |-> FALSE]
\* the first bytes of data are the magic number and the supported version
HasHeader(data) ==
    /\ CanRead(data, 0, FIRST_RECORD_OFFSET)
    /\ Slice(data, 0, FIRST_RECORD_OFFSET) = <<208, 80, 1, 0>>

\* the header and nothing after it
HeaderOnly(data) == HasHeader(data) /\ Len(data) = FIRST_RECORD_OFFSET

\* a call. before is the file as touch, create or disable found it; found
\* tells whether new found the header of the supported version, and whether
\* reset found the header and nothing else; bare, whether the call made a
\* stream access without holding the lock
NoCall == [op |-> "none", scope |-> None, user |-> None, before |-> <<>>,
           found |-> TRUE, res |-> [kind |-> "none"], log |-> <<>>,
           calls |-> 0, fault |-> 0, bare |-> FALSE]
Call(p, op, scope, user, io, res, fault) ==
    [op |-> op, scope |-> scope, user |-> user,
     before |-> IF op \in {"new", "reset"} THEN <<>> ELSE file,
     found |-> IF pc[p] \notin {"closed", "ready"} THEN ctx[p].found
               ELSE IF op = "new" THEN HasHeader(file)
               ELSE IF op = "reset" THEN HeaderOnly(file) ELSE TRUE,
     res |-> res, log |-> io.log, calls |-> io.calls, fault |-> fault,
     bare |-> io.bare \/ (pc[p] \notin {"closed", "ready"} /\ ctx[p].bare)]

\* the stream as process p finds it; the fault-th call of the step fails
\* (0: none)
IoOf(p, fault) ==
    [data |-> file, pos |-> pos[p], held |-> lock = Some(p),
     fuel |-> IF fault = 0 THEN -1 ELSE fault - 1,
     calls |-> 0, err |-> "none", bare |-> FALSE, log |-> <<>>]

\* lock_exclusive blocks while another process holds the lock
CanLock(p) == lock \in {None, Some(p)}

\* the file, the descriptor and the lock as the step of p leaves them
Commit(p, io) ==
    /\ file' = io.data
    /\ pos' = [pos EXCEPT ![p] = io.pos]
    /\ lock' = IF io.held THEN Some(p) ELSE IF lock = Some(p) THEN None ELSE lock

\* new returned an error: the stream is dropped, which closes the descriptor
\* and releases its lock
Dropped(p, io) ==
    /\ file' = io.data
    /\ pos' = [pos EXCEPT ![p] = 0]
    /\ lock' = IF lock = Some(p) \/ io.held THEN None ELSE lock
    /\ pc' = [pc EXCEPT ![p] = "closed"]
    /\ ctx' = [ctx EXCEPT ![p] = NoCtx]

Init ==
    /\ file = <<>>
    /\ lock = None
    /\ pc = [p \in Procs |-> "closed"]
    /\ pos = [p \in Procs |-> 0]
    /\ ctx = [p \in Procs |-> NoCtx]
    /\ clock = 0
    /\ last = NoCall
    /\ budget = Unlimited
    /\ auth = [k \in Keys |-> NoAuth]

\* new, up to the match on read_magic
Open(p, fault) ==
    /\ pc[p] = "closed"
    /\ LET r == read_magic(IoOf(p, fault))
           io == IF r.val # None /\ r.val # Some(MAGIC_NUM)
                 THEN auth_info(r.io, "invalid, resetting") ELSE r.io
       IN  IF ~Live(io)
           THEN /\ Dropped(p, io)
                /\ last' = Call(p, "new", None, None, io, Returned(io, None).res, fault)
           ELSE /\ Commit(p, io)
                /\ pc' = [pc EXCEPT ![p] = IF r.val = Some(MAGIC_NUM) THEN "read_version"
                                                                ELSE "init_lock"]
                /\ ctx' = [ctx EXCEPT ![p] = [offset |-> VERSION_OFFSET,
                                              then |-> "read_version",
                                              op |-> "new", log |-> io.log,
                                              found |-> HasHeader(file),
                                              bare |-> io.bare]]
                /\ last' = last
    /\ UNCHANGED <<clock, budget, auth>>

\* new, the match on read_version
ReadVersion(p, fault) ==
    /\ pc[p] = "read_version"
    /\ LET r == read_version(IoOf(p, fault))
           io == IF r.val = Some(FILE_VERSION) THEN r.io
                 ELSE IF r.val # None
                 THEN auth_info(r.io, "invalid version, resetting")
                 ELSE auth_info(r.io, "no version, resetting")
           log == ctx[p].log \o io.log
       IN  IF ~Live(io)
           THEN /\ Dropped(p, io)
                /\ last' = Call(p, "new", None, None, io, Returned(io, None).res, fault)
           ELSE /\ Commit(p, io)
                /\ IF r.val = Some(FILE_VERSION)
                   THEN /\ pc' = [pc EXCEPT ![p] = "ready"]
                        /\ ctx' = [ctx EXCEPT ![p] = NoCtx]
                        /\ last' = [Call(p, "new", None, None, io, [kind |-> "Ok"], fault)
                                        EXCEPT !.log = log]
                   ELSE /\ pc' = [pc EXCEPT ![p] = "init_lock"]
                        /\ ctx' = [ctx EXCEPT ![p] = [offset |-> FIRST_RECORD_OFFSET,
                                                      then |-> "ready",
                                                      op |-> "new", log |-> log,
                                                      found |-> ctx[p].found,
                                                      bare |-> ctx[p].bare \/ io.bare]]
                        /\ last' = last
    /\ UNCHANGED <<clock, budget, auth>>

\* an init call that returned an error: to new, which drops the stream, or to
\* the caller of reset
InitFailed(p, io, fault) ==
    /\ last' = Call(p, ctx[p].op, None, None, io, Returned(io, None).res, fault)
    /\ IF ctx[p].op = "new"
       THEN Dropped(p, io)
       ELSE /\ Commit(p, io)
            /\ pc' = [pc EXCEPT ![p] = "ready"]
            /\ ctx' = [ctx EXCEPT ![p] = NoCtx]

\* init: lock_exclusive, set_len(0), rewind
InitTruncate(p, fault) ==
    /\ pc[p] = "init_lock"
    /\ CanLock(p)
    /\ LET io == init_truncate(IoOf(p, fault))
       IN  /\ auth' = IF Len(io.data) < Len(file) \/ Live(io)
                      THEN Emptied(auth) ELSE auth
           /\ IF ~Live(io) THEN InitFailed(p, io, fault)
              ELSE /\ Commit(p, io)
                   /\ pc' = [pc EXCEPT ![p] = "init_magic"]
                   /\ ctx' = [ctx EXCEPT ![p].bare = @ \/ io.bare]
                   /\ last' = last
    /\ UNCHANGED <<clock, budget>>

\* init: write_all of the magic number
InitMagic(p, fault) ==
    /\ pc[p] = "init_magic"
    /\ LET io == init_magic(IoOf(p, fault))
       IN  IF ~Live(io) THEN InitFailed(p, io, fault)
           ELSE /\ Commit(p, io)
                /\ pc' = [pc EXCEPT ![p] = "init_version"]
                /\ ctx' = [ctx EXCEPT ![p].bare = @ \/ io.bare]
                /\ last' = last
    /\ UNCHANGED <<clock, budget, auth>>

\* init: write_all of the version, seek to offset, unlock; then init returns
\* to new or to reset
InitVersion(p, fault) ==
    /\ pc[p] = "init_version"
    /\ LET io == init_version(IoOf(p, fault), ctx[p].offset)
       IN  IF ~Live(io) THEN InitFailed(p, io, fault)
           ELSE /\ Commit(p, io)
                /\ pc' = [pc EXCEPT ![p] = ctx[p].then]
                /\ IF ctx[p].then = "ready"
                   THEN /\ ctx' = [ctx EXCEPT ![p] = NoCtx]
                        /\ last' = [Call(p, ctx[p].op, None, None, io, [kind |-> "Ok"], fault)
                                        EXCEPT !.log = ctx[p].log]
                   ELSE /\ ctx' = [ctx EXCEPT ![p].bare = @ \/ io.bare]
                        /\ last' = last
    /\ UNCHANGED <<clock, budget, auth>>

\* reset: init(0, true), up to the truncation
ResetCall(p, fault) ==
    /\ CanLock(p)
    /\ LET io == init_truncate(IoOf(p, fault))
       IN  /\ auth' = IF Len(io.data) < Len(file) \/ Live(io)
                      THEN Emptied(auth) ELSE auth
           /\ IF ~Live(io)
              THEN /\ Commit(p, io)
                   /\ last' = Call(p, "reset", None, None, io, Returned(io, None).res, fault)
                   /\ pc' = [pc EXCEPT ![p] = "ready"]
                   /\ ctx' = [ctx EXCEPT ![p] = NoCtx]
              ELSE /\ Commit(p, io)
                   /\ pc' = [pc EXCEPT ![p] = "init_magic"]
                   /\ ctx' = [ctx EXCEPT ![p] = [offset |-> 0, then |-> "ready",
                                                 op |-> "reset", log |-> <<>>,
                                                 found |-> HeaderOnly(file),
                                                 bare |-> io.bare]]
                   /\ last' = last
    /\ UNCHANGED clock

Reset(p, fault) ==
    /\ pc[p] = "ready"
    /\ budget # 0
    /\ budget' = Spent(budget)
    /\ ResetCall(p, fault)

\* touch; the clock may advance between the two calls of SystemTime::now
TouchCall(p, scope, auth_user, dt, fault) ==
    /\ CanLock(p)
    /\ clock + dt <= MaxTime
    /\ \E r \in {touch(IoOf(p, fault), scope, auth_user, clock, clock + dt)} :
           /\ Commit(p, r.io)
           /\ last' = Call(p, "touch", Some(scope), Some(auth_user), r.io, r.res, fault)
           /\ clock' = IF r.res.kind = "Updated" THEN clock + dt ELSE clock
           /\ auth' = IF r.res.kind = "Updated"
                      THEN [auth EXCEPT ![<<scope, auth_user>>] = Valid(r.res.new_time)]
                      ELSE auth
    /\ pc' = [pc EXCEPT ![p] = "ready"]
    /\ UNCHANGED ctx

Touch(p, scope, auth_user, dt, fault) ==
    /\ pc[p] = "ready"
    /\ budget # 0
    /\ budget' = Spent(budget)
    /\ TouchCall(p, scope, auth_user, dt, fault)

\* create
CreateCall(p, scope, auth_user, fault) ==
    /\ CanLock(p)
    /\ \E r \in {create(IoOf(p, fault), scope, auth_user, clock)} :
           /\ Commit(p, r.io)
           /\ last' = Call(p, "create", Some(scope), Some(auth_user), r.io, r.res, fault)
           /\ auth' = IF r.res.kind \in {"Created", "Updated"}
                      THEN [auth EXCEPT ![<<scope, auth_user>>] = Valid(clock)]
                      ELSE auth
    /\ pc' = [pc EXCEPT ![p] = "ready"]
    /\ UNCHANGED <<ctx, clock>>

Create(p, scope, auth_user, fault) ==
    /\ pc[p] = "ready"
    /\ budget # 0
    /\ budget' = Spent(budget)
    /\ CreateCall(p, scope, auth_user, fault)

\* disable; auth_user is None or Some(user)
DisableCall(p, scope, auth_user, fault) ==
    /\ CanLock(p)
    /\ \E r \in {disable(IoOf(p, fault), scope, auth_user)} :
           /\ Commit(p, r.io)
           /\ last' = Call(p, "disable", Some(scope), auth_user, r.io, r.res, fault)
           /\ auth' = IF r.res.kind = "Ok"
                      THEN [k \in Keys |->
                              IF /\ k[1] = scope /\ auth_user \in {None, Some(k[2])}
                                 /\ auth[k].state = "valid"
                              THEN Disabled ELSE auth[k]]
                      ELSE auth
    /\ pc' = [pc EXCEPT ![p] = "ready"]
    /\ UNCHANGED <<ctx, clock>>

Disable(p, scope, auth_user, fault) ==
    /\ pc[p] = "ready"
    /\ budget # 0
    /\ budget' = Spent(budget)
    /\ DisableCall(p, scope, auth_user, fault)

\* time passes
Tick ==
    /\ clock < MaxTime
    /\ clock' = clock + 1
    /\ UNCHANGED <<file, lock, pc, pos, ctx, last, budget, auth>>

\* a step of process p, no call failing
Step(p) ==
    \/ Open(p, 0)
    \/ ReadVersion(p, 0)
    \/ InitTruncate(p, 0)
    \/ InitMagic(p, 0)
    \/ InitVersion(p, 0)
    \/ Reset(p, 0)
    \/ \E s \in Scopes, u \in Users, dt \in 0..1 : Touch(p, s, u, dt, 0)
    \/ \E k \in Authenticating : Create(p, k[1], k[2], 0)
    \/ \E s \in Scopes, u \in {None} \cup {Some(x) : x \in Users} : Disable(p, s, u, 0)

\* ------------------------------------------------------------ a file found on disk

\* At most MaxCalls calls are made on a store opened on a file of any content.
MaxCalls == 2

Header == to_le_bytes(MAGIC_NUM, SIZE_OF_U16) \o to_le_bytes(FILE_VERSION, SIZE_OF_U16)
Framed(r) == to_le_bytes(Len(as_bytes(r)), SIZE_OF_U16) \o as_bytes(r)
RecA(t, enabled) == Framed(SessionRecord(TtyScope, 1000, enabled, t))
RecB(t, enabled) == Framed(SessionRecord(PpidScope, 1001, enabled, t))
ButLast(bs) == SubSeq(bs, 1, Len(bs) - 1)

\* lists of well-formed records: timestamps past, present and future; a pair
\* stored twice
WellFormed ==
    { <<>>,
      RecA(0, TRUE),
      RecA(0, FALSE),
      RecA(MaxTime, TRUE),
      RecA(1, TRUE) \o RecB(0, TRUE),
      RecA(0, FALSE) \o RecA(1, TRUE),
      RecB(MaxTime, FALSE) \o RecA(0, TRUE) }

\* what may follow them: a record cut short, a length prefix alone, half a
\* length prefix, a zero length prefix, a flag byte that is neither 0xFF nor
\* 0x00, an unknown discriminant, a declared length one more and one less
\* than the record's
Defects ==
    LET r == RecB(1, TRUE)
        body == SubSeq(r, SIZE_OF_U16 + 1, Len(r))
    IN  { ButLast(r),
          SubSeq(r, 1, SIZE_OF_U16),
          SubSeq(r, 1, 1),
          to_le_bytes(0, SIZE_OF_U16),
          ButLast(r) \o <<1>>,
          SubSeq(r, 1, SIZE_OF_U16) \o <<3>> \o Tail(body),
          to_le_bytes(Len(body) + 1, SIZE_OF_U16) \o body \o <<0>>,
          to_le_bytes(Len(body) - 1, SIZE_OF_U16) \o ButLast(body) }

\* headers that are not the supported one: none, half a magic number, no
\* version, half a version, another magic number, other versions
BadHeaders ==
    { <<>>, SubSeq(Header, 1, 1), SubSeq(Header, 1, 2), SubSeq(Header, 1, 3),
      <<80, 208>> \o SubSeq(Header, 3, 4),
      SubSeq(Header, 1, 2) \o to_le_bytes(FILE_VERSION + 1, SIZE_OF_U16),
      SubSeq(Header, 1, 2) \o <<0, 1>> }

InitialStores ==
    {Header \o w : w \in WellFormed}
      \cup {Header \o w \o d \o t :
               w \in WellFormed, d \in Defects, t \in {<<>>, RecB(1, TRUE)}}
      \cup {h \o t : h \in BadHeaders, t \in {<<>>, RecA(0, TRUE)}}

InitAny ==
    /\ file \in InitialStores
    /\ lock = None
    /\ pc = [p \in Procs |-> "closed"]
    /\ pos = [p \in Procs |-> 0]
    /\ ctx = [p \in Procs |-> NoCtx]
    /\ clock \in 0..MaxTime
    /\ last = NoCall
    /\ budget = MaxCalls
    /\ auth = [k \in Keys |-> NoAuth]

\* the caller takes what the call returned
Taken ==
    /\ last # NoCall
    /\ last' = NoCall
    /\ UNCHANGED <<file, lock, pc, pos, ctx, clock, budget, auth>>

Next ==
    \/ Taken
    \/ last = NoCall /\ Tick
    \/ last = NoCall /\ \E p \in Procs : Step(p)

Spec == Init /\ [][Next]_vars

\* one process on a file of any content
NextAny ==
    \/ Taken
    \/ last = NoCall /\ Step("p1")

SpecAny == InitAny /\ [][NextAny]_vars

\* ------------------------------------------------------------ a crash

\* Process p dies in create while write_record appends the record: k bytes of
\* the length prefix and the body have reached the file, at least one and
\* not all. Its descriptor is closed, which releases its lock.
Crash(p, scope, auth_user, k) ==
    /\ pc[p] = "ready"
    /\ budget # 0
    /\ budget' = Spent(budget)
    /\ CanLock(p)
    /\ \E r \in {create(IoOf(p, 0), scope, auth_user, clock)} :
           LET written == Len(Framed(SessionRecord(scope, auth_user, TRUE, clock)))
           IN  /\ r.res.kind = "Created"
               /\ k < written
               /\ file' = SubSeq(r.io.data, 1, Len(r.io.data) - written + k)
    /\ lock' = IF lock = Some(p) THEN None ELSE lock
    /\ pos' = [pos EXCEPT ![p] = 0]
    /\ pc' = [pc EXCEPT ![p] = "crashed"]
    /\ UNCHANGED <<ctx, clock, last, auth>>

\* an empty store; MaxCalls + 1 calls are made, the one that dies among them
InitCrash ==
    /\ file = <<>>
    /\ lock = None
    /\ pc = [p \in Procs |-> "closed"]
    /\ pos = [p \in Procs |-> 0]
    /\ ctx = [p \in Procs |-> NoCtx]
    /\ clock = 0
    /\ last = NoCall
    /\ budget = MaxCalls + 1
    /\ auth = [k \in Keys |-> NoAuth]

\* p1 may die in create; p2 lives
NextCrash ==
    \/ Taken
    \/ last = NoCall /\ \E q \in Procs : Step(q)
    \/ last = NoCall /\ \E key \in Authenticating, k \in 1..(Len(RecA(0, TRUE)) - 1) :
                            Crash("p1", key[1], key[2], k)

SpecCrash == InitCrash /\ [][NextCrash]_vars

\* ------------------------------------------------------------ calls that fail

\* One process on a store of well-formed records, or on an empty file. In
\* each step one of the first MaxFault I/O and clock calls may fail, as
\* every one of them can: the step returns the error with ?.
MaxFault == 12

\* a step of process p in which call number fault fails
Faulty(p, fault) ==
    \/ Open(p, fault)
    \/ ReadVersion(p, fault)
    \/ InitTruncate(p, fault)
    \/ InitMagic(p, fault)
    \/ InitVersion(p, fault)
    \/ Reset(p, fault)
    \/ \E s \in Scopes, u \in Users, dt \in 0..1 : Touch(p, s, u, dt, fault)
    \/ \E k \in Authenticating : Create(p, k[1], k[2], fault)
    \/ \E s \in Scopes, u \in {None} \cup {Some(x) : x \in Users} :
           Disable(p, s, u, fault)

InitFault ==
    /\ file \in {<<>>} \cup {Header \o w : w \in WellFormed}
    /\ lock = None
    /\ pc = [p \in Procs |-> "closed"]
    /\ pos = [p \in Procs |-> 0]
    /\ ctx = [p \in Procs |-> NoCtx]
    /\ clock \in 0..MaxTime
    /\ last = NoCall
    /\ budget = MaxCalls
    /\ auth = [k \in Keys |-> NoAuth]

\* a step counts as one with a failing call when the call was reached
NextFault ==
    \/ Taken
    \/ last = NoCall /\ Step("p1")
    \/ /\ last = NoCall
       /\ \E fault \in 1..MaxFault : Faulty("p1", fault)
       /\ last'.res.kind = "Err"

SpecFault == InitFault /\ [][NextFault]_vars

\* ------------------------------------------------------------ an opened store

\* Both processes have opened a store of well-formed records; MaxCalls + 1
\* calls are made on it.
Opened(p) ==
    \/ InitMagic(p, 0)
    \/ InitVersion(p, 0)
    \/ Reset(p, 0)
    \/ \E s \in Scopes, u \in Users, dt \in 0..1 : Touch(p, s, u, dt, 0)
    \/ \E k \in Authenticating : Create(p, k[1], k[2], 0)
    \/ \E s \in Scopes, u \in {None} \cup {Some(x) : x \in Users} : Disable(p, s, u, 0)

\* one session authenticated against two users, and another session
Shared ==
    RecA(0, TRUE) \o Framed(SessionRecord(TtyScope, 1001, TRUE, 0)) \o RecB(0, TRUE)

InitOpened ==
    /\ file \in {Header \o w : w \in WellFormed \cup {Shared}}
    /\ lock = None
    /\ pc = [p \in Procs |-> "ready"]
    /\ pos = [p \in Procs |-> FIRST_RECORD_OFFSET]
    /\ ctx = [p \in Procs |-> NoCtx]
    /\ clock \in 0..MaxTime
    /\ last = NoCall
    /\ budget = MaxCalls + 1
    /\ auth = [k \in Keys |-> NoAuth]

NextOpened ==
    \/ Taken
    \/ last = NoCall /\ \E p \in Procs : Opened(p)

SpecOpened == InitOpened /\ [][NextOpened]_vars

\* ------------------------------------------------------------ calls that wait

\* A call is invoked, waits in lock_exclusive while another process holds
\* the lock, and runs. Any of its I/O and clock calls may fail.
Invoke(p) ==
    /\ pc[p] = "ready"
    /\ budget # 0
    /\ budget' = Spent(budget)
    /\ pc' = [pc EXCEPT ![p] = "invoked"]
    /\ UNCHANGED <<file, lock, pos, ctx, clock, last, auth>>

\* call number fault of the step fails (0: none); the step counts as one with
\* a failing call when the call was reached
Reached(fault) == fault # 0 => last'.res.kind = "Err"

\* the steps that begin with lock_exclusive
Acquire(p) ==
    \E fault \in 0..MaxFault :
        /\ \/ InitTruncate(p, fault)
           \/ /\ pc[p] = "invoked"
              /\ UNCHANGED budget
              /\ \/ ResetCall(p, fault)
                 \/ \E s \in Scopes, u \in Users, dt \in 0..1 : TouchCall(p, s, u, dt, fault)
                 \/ \E k \in Authenticating : CreateCall(p, k[1], k[2], fault)
                 \/ \E s \in Scopes, u \in {None} \cup {Some(x) : x \in Users} :
                        DisableCall(p, s, u, fault)
        /\ Reached(fault)

\* the other steps of a call under way
Continue(p) ==
    \E fault \in 0..MaxFault :
        /\ ReadVersion(p, fault) \/ InitMagic(p, fault) \/ InitVersion(p, fault)
        /\ Reached(fault)

InitLive ==
    /\ file \in {<<>>, Header \o RecA(0, TRUE)}
    /\ lock = None
    /\ pc = [p \in Procs |-> "closed"]
    /\ pos = [p \in Procs |-> 0]
    /\ ctx = [p \in Procs |-> NoCtx]
    /\ clock = 0
    /\ last = NoCall
    /\ budget = MaxCalls
    /\ auth = [k \in Keys |-> NoAuth]

NextLive ==
    \/ Taken
    \/ last = NoCall /\ \E p \in Procs, fault \in 0..MaxFault :
                            Open(p, fault) /\ Reached(fault)
    \/ last = NoCall /\ \E p \in Procs : Invoke(p)
    \/ last = NoCall /\ \E p \in Procs : Continue(p)
    \/ last = NoCall /\ \E p \in Procs : Acquire(p)

\* The caller takes what a call returned; a process that is in a call keeps
\* running, whatever the other processes do meanwhile; a process that
\* waits for the lock gets it if the lock is free again and again.
SpecLive ==
    /\ InitLive
    /\ [][NextLive]_vars
    /\ WF_vars(Taken)
    /\ \A p \in Procs : SF_vars(last = NoCall /\ Continue(p))
    /\ \A p \in Procs : SF_vars(last = NoCall /\ Acquire(p))

\* ------------------------------------------------------------ the codec alone

\* A record is encoded with as_bytes; the bytes are left as they are, or get
\* one more byte at the end, or are cut to a strict prefix, or lose their
\* first byte; from_bytes decodes them. Among the records are some whose
\* second byte is a discriminant.
TestScopes ==
    {TTY(dev, pid, t) : dev \in {34816, 2}, pid \in {1234, 1}, t \in {0, 1}}
        \cup {PPID(pid, t) : pid \in {1234, 1, 2}, t \in {0, 1}}
TestRecords ==
    {SessionRecord(scope, user, enabled, t) :
        scope \in TestScopes, user \in {0, 1000}, enabled \in BOOLEAN,
        t \in {0, MaxTime}}

InitCodec ==
    /\ file = <<>>
    /\ lock = None
    /\ pc = [p \in Procs |-> "closed"]
    /\ pos = [p \in Procs |-> 0]
    /\ ctx = [p \in Procs |-> NoCtx]
    /\ clock = 0
    /\ budget = 0
    /\ auth = [k \in Keys |-> NoAuth]
    /\ \E r \in TestRecords :
           last = [op |-> "record", rec |-> r, damage |-> "none",
                   res |-> [kind |-> "none"]]

Encode ==
    /\ last.op = "record"
    /\ file' = as_bytes(last.rec)
    /\ last' = [last EXCEPT !.op = "as_bytes"]
    /\ UNCHANGED <<lock, pc, pos, ctx, clock, budget, auth>>

Damage(bytes, how) ==
    /\ last.op = "as_bytes"
    /\ file' = bytes
    /\ last' = [last EXCEPT !.op = "damaged", !.damage = how]
    /\ UNCHANGED <<lock, pc, pos, ctx, clock, budget, auth>>

Decode ==
    /\ last.op \in {"as_bytes", "damaged"}
    /\ last' = [last EXCEPT !.op = "from_bytes", !.res = from_bytes(file)]
    /\ UNCHANGED <<file, lock, pc, pos, ctx, clock, budget, auth>>

NextCodec ==
    \/ Encode
    \/ \E b \in {BOOL_FALSE, TTY_DISCRIMINANT, BOOL_TRUE} :
           Damage(Append(file, b), "extra byte")
    \/ \E k \in 0..(Len(file) - 1) : Damage(SubSeq(file, 1, k), "prefix")
    \/ Damage(Tail(file), "first byte dropped")
    \/ Decode

SpecCodec == InitCodec /\ [][NextCodec]_vars

\* ------------------------------------------------------- byte strings

\* from_bytes applied to byte strings that are not encodings written by
\* as_bytes: an encoding with one byte replaced, besides those with a byte
\* added or bytes missing.
\* the positions where the fields after the discriminant start
FieldStarts(bytes) ==
    IF bytes[1] = TTY_DISCRIMINANT
    THEN LET at_dev == SIZE_OF_BOOL + 1
             at_pid == at_dev + SIZE_OF_DEV_T
             at_init == at_pid + SIZE_OF_PID_T
             at_user == at_init + SIZE_OF_TS
         IN  {at_dev, at_pid, at_init, at_user, at_user + SIZE_OF_UID_T}
    ELSE LET at_pid == SIZE_OF_BOOL + 1
             at_init == at_pid + SIZE_OF_PID_T
             at_user == at_init + SIZE_OF_TS
         IN  {at_pid, at_init, at_user, at_user + SIZE_OF_UID_T}

\* byte b at position i leaves every field a value below 2^31
Narrow(bytes, i, b) ==
    \/ b = 0
    \/ i \in {1, Len(bytes)}
    \/ \E s \in FieldStarts(bytes) :
           \/ i - s \in 0..2
           \/ i - s = 3 /\ b < 128

ChangedBytes == {BOOL_FALSE, TTY_DISCRIMINANT, PPID_DISCRIMINANT, 3, 127, 254, BOOL_TRUE}

NextBytes ==
    \/ Encode
    \/ \E i \in 1..Len(file), b \in ChangedBytes :
           /\ b # file[i]
           /\ Narrow(file, i, b)
           /\ Damage([file EXCEPT ![i] = b], "byte changed")
    \/ Damage(Append(file, BOOL_FALSE), "extra byte")
    \/ Damage(ButLast(file), "prefix")
    \/ Decode

SpecBytes == InitCodec /\ [][NextBytes]_vars

\* --------------------------------------------------- the predicates alone

\* matches and written_between applied to a record: the record is drawn from
\* TestRecords, the scope, the user and the two times from bounded sets.
TestUsers == {0, 1000}
TestTimes == 0..(MaxTime + 1)

Match ==
    /\ last.op = "record"
    /\ \E scope \in TestScopes, user \in TestUsers :
           last' = [op |-> "matches", rec |-> last.rec, scope |-> scope,
                    user |-> user, res |-> matches(last.rec, scope, user)]
    /\ UNCHANGED <<file, lock, pc, pos, ctx, clock, budget, auth>>

WrittenBetween ==
    /\ last.op = "record"
    /\ \E early_time \in TestTimes, later_time \in TestTimes :
           last' = [op |-> "written_between", rec |-> last.rec,
                    early_time |-> early_time, later_time |-> later_time,
                    res |-> written_between(last.rec, early_time, later_time)]
    /\ UNCHANGED <<file, lock, pc, pos, ctx, clock, budget, auth>>

NextPred == Match \/ WrittenBetween

SpecPred == InitCodec /\ [][NextPred]_vars

\* ------------------------------------------------------------ SudoLogger

\* Strings are sequences of characters; a logger is known by its place in
\* the list. The list self.0 is kept in the field loggers of last, with the
\* prefixes as they were given beside it.
MaxLoggers == 2
MaxTarget == 4
Chars == {"a", "_", ":"}
Sep == <<":", ":">>

RECURSIVE Strs(_)
Strs(n) ==
    IF n = 0 THEN {<<>>}
    ELSE Strs(n - 1) \cup {Append(x, c) : x \in Strs(n - 1), c \in Chars}

\* str::starts_with, str::ends_with
starts_with(x, pat) == Len(pat) <= Len(x) /\ SubSeq(x, 1, Len(pat)) = pat
ends_with(x, pat) ==
    Len(pat) <= Len(x) /\ SubSeq(x, Len(x) - Len(pat) + 1, Len(x)) = pat

\* SudoLogger::add_boxed_logger
add_boxed_logger(loggers, prefix) ==
    Append(loggers, IF ends_with(prefix, Sep) THEN prefix ELSE prefix \o Sep)

\* the test of SudoLogger::log variant: every target that starts with the
\* prefix less its last two characters
log_to_starting(target, prefix) ==
    starts_with(target, SubSeq(prefix, 1, Len(prefix) - 2))

\* the test of SudoLogger::log
log_to(target, prefix) ==
    \/ target = SubSeq(prefix, 1, Len(prefix) - 2)
    \/ starts_with(target, prefix)

\* SudoLogger::log: the loggers the record is handed to, in order
log(loggers, target) ==
    SelectSeq([i \in 1..Len(loggers) |-> i],
              LAMBDA i : log_to(target, loggers[i]))

\* the prefixes given: up to two characters, and up to one character
\* followed by "::"
Prefixes == Strs(2) \cup {x \o Sep : x \in Strs(1)}

InitLogger ==
    /\ file = <<>>
    /\ lock = None
    /\ pc = [p \in Procs |-> "closed"]
    /\ pos = [p \in Procs |-> 0]
    /\ ctx = [p \in Procs |-> NoCtx]
    /\ clock = 0
    /\ budget = 0
    /\ auth = [k \in Keys |-> NoAuth]
    /\ last = [op |-> "default", loggers |-> <<>>, given |-> <<>>]

AddLogger ==
    /\ last.op \in {"default", "add_boxed_logger"}
    /\ Len(last.loggers) < MaxLoggers
    /\ \E prefix \in Prefixes :
           last' = [op |-> "add_boxed_logger",
                    loggers |-> add_boxed_logger(last.loggers, prefix),
                    given |-> Append(last.given, prefix)]
    /\ UNCHANGED <<file, lock, pc, pos, ctx, clock, budget, auth>>

Log ==
    /\ last.op \in {"default", "add_boxed_logger"}
    /\ \E target \in Strs(MaxTarget) :
           last' = [op |-> "log", loggers |-> last.loggers, given |-> last.given,
                    target |-> target, delivered |-> log(last.loggers, target)]
    /\ UNCHANGED <<file, lock, pc, pos, ctx, clock, budget, auth>>

NextLogger == AddLogger \/ Log

SpecLogger == InitLogger /\ [][NextLogger]_vars

\* ------------------------------------------------------------ what is stored

\* the records of data as a reader of the format finds them, each with the
\* position of its length prefix: the well-formed records before the end of
\* data or the first defect
RECURSIVE StoredFrom(_, _)
StoredFrom(data, at) ==
    IF ~CanRead(data, at, SIZE_OF_U16) THEN <<>>
    ELSE LET n == from_le_bytes(Slice(data, at, SIZE_OF_U16))
             body == at + SIZE_OF_U16
         IN  IF n = 0 \/ ~CanRead(data, body, n) THEN <<>>
             ELSE LET d == RecordDecode(Slice(data, body, n))
                  IN  IF ~d.ok THEN <<>>
                      ELSE IF d.pos # n THEN <<>>
                      ELSE <<[rec |-> d.val, at |-> at]>> \o StoredFrom(data, body + n)
Stored(data) == StoredFrom(data, FIRST_RECORD_OFFSET)

\* the position after the last of them
StoredEnd(data) ==
    LET s == Stored(data)
    IN  IF s = <<>> THEN FIRST_RECORD_OFFSET
        ELSE LET at == s[Len(s)].at
             IN  at + SIZE_OF_U16 + from_le_bytes(Slice(data, at, SIZE_OF_U16))

\* those of (scope, user), and the enabled ones among them
Of(data, scope, user) ==
    SelectSeq(Stored(data),
              LAMBDA e : e.rec.scope = scope /\ e.rec.auth_user = user)
EnabledOf(data, scope, user) ==
    SelectSeq(Of(data, scope, user), LAMBDA e : e.rec.enabled)

\* the step is the return of a call of op
Returns(op) == last = NoCall /\ last'.op = op

\* ------------------------------------------------------------ one call at a time

\* The operations as calls made one at a time on the list of records: what
\* each returns and the list it leaves.
RecordsOf(stored) == [i \in 1..Len(stored) |-> stored[i].rec]
Records(data) == RecordsOf(Stored(data))
Matching(recs, scope, user) ==
    {i \in 1..Len(recs) : recs[i].scope = scope /\ recs[i].auth_user = user}
First(S) == CHOOSE i \in S : \A j \in S : i <= j

SeqTouch(recs, scope, user, now, new_time) ==
    LET m == {i \in Matching(recs, scope, user) : recs[i].enabled}
        ts == recs[First(m)].timestamp
    IN  IF m = {} THEN [recs |-> recs, res |-> [kind |-> "NotFound"]]
        ELSE IF now - Timeout <= ts /\ ts <= now
        THEN [recs |-> [recs EXCEPT ![First(m)].timestamp = new_time],
              res |-> [kind |-> "Updated", old_time |-> ts, new_time |-> new_time]]
        ELSE [recs |-> recs, res |-> [kind |-> "Outdated", time |-> ts]]

SeqCreate(recs, scope, user, now) ==
    LET m == Matching(recs, scope, user)
    IN  IF m = {}
        THEN [recs |-> Append(recs, SessionRecord(scope, user, TRUE, now)),
              res |-> [kind |-> "Created", time |-> now]]
        ELSE [recs |-> [recs EXCEPT ![First(m)].timestamp = now,
                                    ![First(m)].enabled = TRUE],
              res |-> [kind |-> "Updated", old_time |-> recs[First(m)].timestamp,
                       new_time |-> now]]

SeqDisable(recs, scope, user) ==
    [recs |-> [i \in 1..Len(recs) |->
                 IF recs[i].scope = scope /\ user \in {None, Some(recs[i].auth_user)}
                 THEN [recs[i] EXCEPT !.enabled = FALSE] ELSE recs[i]],
     res |-> [kind |-> "Ok"]]

\* ------------------------------------------------------------ properties

\* C1: on an empty store create returns Created with the current time t0; a
\* touch of a pair whose timestamp create (or touch) last wrote as t0, with no
\* disable and no emptying of the file by init since, called while
\* now - t0 <= timeout, returns Updated with old_time = t0.
C1_TouchAfterCreate ==
    [][/\ (Returns("create") /\ Stored(file) = <<>>)
            => last'.res = [kind |-> "Created", time |-> clock]
       /\ Returns("touch") =>
            LET a == auth[<<last'.scope[1], last'.user[1]>>]
            IN  (a.state = "valid" /\ clock - a.time <= Timeout)
                    => /\ last'.res.kind = "Updated"
                       /\ last'.res.old_time = a.time]_vars

\* a touch one tick after the create, the timeout being one tick
C1_Witness ==
    /\ last.op = "touch"
    /\ last.res.kind = "Updated"
    /\ last.res.old_time + Timeout = last.res.new_time
    /\ Len(Stored(file)) = 1

\* C3: the file never holds two records of one (scope, user); create returns
\* Created and appends exactly one record when no record of the pair is
\* stored, and otherwise returns Updated and leaves the number of records as
\* it was.
C3_OneRecordPerPair ==
    [][\A before \in {Stored(file)}, after \in {Stored(file')} :
           /\ \A i, j \in 1..Len(after) :
                  (/\ after[i].rec.scope = after[j].rec.scope
                   /\ after[i].rec.auth_user = after[j].rec.auth_user) => i = j
           /\ Returns("create") =>
                IF \A i \in 1..Len(before) :
                       ~(/\ before[i].rec.scope = last'.scope[1]
                         /\ before[i].rec.auth_user = last'.user[1])
                THEN /\ last'.res.kind = "Created"
                     /\ Len(after) = Len(before) + 1
                     /\ SubSeq(after, 1, Len(before)) = before
                ELSE /\ last'.res.kind = "Updated"
                     /\ Len(after) = Len(before)]_vars

\* a create for a pair whose record another create appended, a second pair
\* being stored too
C3_Witness ==
    /\ last.op = "create"
    /\ last.res.kind = "Updated"
    /\ Len(Stored(file)) = 2

\* C4: from the return of a disable that covered (scope, user) until a create
\* for the pair, every touch(scope, user) returns NotFound, whatever the
\* timestamp stored; so does a touch of a pair no create was made for.
C4_DisabledNotFound ==
    [][Returns("touch") =>
         (auth[<<last'.scope[1], last'.user[1]>>].state # "valid"
              => last'.res = [kind |-> "NotFound"])]_vars

\* a touch of a disabled record whose timestamp is within the timeout
C4_Witness ==
    /\ last.op = "touch"
    /\ last.res.kind = "NotFound"
    /\ auth[<<last.scope[1], last.user[1]>>].state = "disabled"
    /\ LET of == Of(file, last.scope[1], last.user[1])
       IN  /\ of # <<>>
           /\ ~of[1].rec.enabled
           /\ clock - Timeout <= of[1].rec.timestamp
           /\ of[1].rec.timestamp <= clock

\* C5: create for a pair whose stored record is disabled returns Updated with
\* old_time the timestamp stored, and changes the file in this only: the
\* record, in its place, is enabled and its timestamp is the current time.
C5_CreateReenables ==
    [][Returns("create") =>
         LET of == Of(file, last'.scope[1], last'.user[1])
             e == of[1]
             slot == e.at + SIZE_OF_U16
         IN  (of # <<>> /\ ~e.rec.enabled) =>
             /\ last'.res = [kind |-> "Updated", old_time |-> e.rec.timestamp,
                             new_time |-> clock]
             /\ Len(file') = Len(file)
             /\ Len(Stored(file')) = Len(Stored(file))
             /\ file' = Overwrite(file, slot,
                                  as_bytes([e.rec EXCEPT !.enabled = TRUE,
                                                         !.timestamp = clock]))]_vars

\* a create, later than the timestamp stored, that re-enabled a record
C5_Witness ==
    /\ last.op = "create"
    /\ last.res.kind = "Updated"
    /\ ~Of(last.before, last.scope[1], last.user[1])[1].rec.enabled
    /\ last.res.old_time < last.res.new_time
    /\ Len(Stored(file)) = 2

\* C2: touch returns Updated exactly when the first enabled record of
\* (scope, user) has a timestamp ts with now - timeout <= ts <= now; when ts
\* is earlier than now - timeout or later than now it returns Outdated and
\* the file stays as it was.
C2_UpdatedIffWithinTimeout ==
    [][Returns("touch") =>
         \A of \in {EnabledOf(file, last'.scope[1], last'.user[1])} :
             LET ts == of[1].rec.timestamp
                 within == clock - Timeout <= ts /\ ts <= clock
             IN  /\ last'.res.kind = "Updated" <=> (of # <<>> /\ within)
                 /\ (of # <<>> /\ ~within) =>
                        /\ last'.res = [kind |-> "Outdated", time |-> ts]
                        /\ file' = file]_vars

\* a touch of a record whose timestamp lies in the future
C2_Witness ==
    /\ last.op = "touch"
    /\ last.res.kind = "Outdated"
    /\ last.res.time > clock
    /\ file = last.before

\* C6: whatever the file holds, new, touch, create, disable and reset return
\* an error only when one of their I/O or clock calls failed.
C6_ErrorOnlyFromFailedCall ==
    last.res.kind = "Err" => last.fault # 0

\* C7: a scan that comes to a record whose declared length is more than the
\* bytes left, or whose body does not decode, or decodes leaving bytes over,
\* acts on the records before it and on no other, and leaves the file cut at
\* the first byte of that record's length prefix, the bytes before it as the
\* operation on those records alone leaves them.
C7_TruncatesAtDefect ==
    [][(last = NoCall /\ last'.op \in {"touch", "create", "disable"}) =>
         \A end \in {StoredEnd(file)} :
             LET scope == last'.scope[1]
                 kept == SubSeq(file, 1, end)
                 defect == /\ CanRead(file, end, SIZE_OF_U16)
                           /\ Slice(file, end, SIZE_OF_U16) # <<0, 0>>
                 covered(e) == /\ e.rec.scope = scope
                               /\ last'.user \in {None, Some(e.rec.auth_user)}
                 before == Stored(file)
                 after == Stored(file')
             IN  defect =>
                 CASE last'.op = "touch" /\ EnabledOf(file, scope, last'.user[1]) = <<>>
                        -> /\ last'.res = [kind |-> "NotFound"]
                           /\ file' = kept
                   [] last'.op = "create" /\ Of(file, scope, last'.user[1]) = <<>>
                        -> /\ last'.res = [kind |-> "Created", time |-> clock]
                           /\ file' = kept \o Framed(SessionRecord(scope, last'.user[1],
                                                                   TRUE, clock))
                   [] last'.op = "disable"
                        -> /\ last'.res = [kind |-> "Ok"]
                           /\ Len(file') = end
                           /\ HasHeader(file')
                           /\ after = [i \in 1..Len(before) |->
                                         IF covered(before[i])
                                         THEN [before[i] EXCEPT !.rec.enabled = FALSE]
                                         ELSE before[i]]
                   [] OTHER -> TRUE]_vars

\* a scan cut the file after two records that it kept
C7_Witness ==
    /\ last.op \in {"touch", "disable"}
    /\ last.log # <<>>
    /\ Len(Stored(file)) = 2
    /\ Len(file) < Len(last.before)
    /\ file = SubSeq(last.before, 1, Len(file))

\* C9: new on a stream that is empty, or does not begin with the magic
\* number, or holds after it no version or another version, returns Ok and
\* leaves the stream holding the bytes D0 50 01 00 and nothing else.
C9_OpenRewritesHeader ==
    (last.op = "new" /\ ~last.found) =>
        /\ last.res.kind = "Ok"
        /\ file = <<208, 80, 1, 0>>

\* an open that found something other than the header and logged it
C9_Witness ==
    /\ last.op = "new"
    /\ ~last.found
    /\ last.res.kind = "Ok"
    /\ last.log # <<>>
    /\ pc["p1"] = "ready"

\* C10: new on a stream whose first four bytes are the magic number and the
\* supported version returns Ok, and no step of it changes a byte of the
\* stream.
C10_OpenKeepsValidFile ==
    [][\A p \in Procs :
         (pc[p] \in {"closed", "read_version"} /\ pc'[p] # pc[p] /\ HasHeader(file)) =>
             /\ file' = file
             /\ pc'[p] \in {"read_version", "ready"}
             /\ pc'[p] = "ready" => (last'.op = "new" /\ last'.res.kind = "Ok")]_vars

\* an open that found the header, records after it
C10_Witness ==
    /\ last.op = "new"
    /\ last.found
    /\ last.res.kind = "Ok"
    /\ Len(Stored(file)) = 2

\* C8: after a process died in create with part of the record appended, a
\* scan of the whole file leaves the header and complete records only, as
\* many as were stored, and a touch of a pair whose timestamp a create wrote
\* within the timeout returns Updated.
C8_CrashHeals ==
    [][/\ Returns("disable") =>
            /\ StoredEnd(file') = Len(file')
            /\ Len(Stored(file')) = Len(Stored(file))
       /\ Returns("touch") =>
            LET a == auth[<<last'.scope[1], last'.user[1]>>]
            IN  (a.state = "valid" /\ clock - a.time <= Timeout)
                    => last'.res.kind = "Updated"]_vars

\* C11: when reset returns Ok the file is the four bytes of the header,
\* whatever it held when reset was called; a touch called on the file as
\* reset leaves it returns NotFound, whatever the scope and the user.
C11_ResetLeavesHeader ==
    [][/\ (Returns("reset") /\ last'.res.kind = "Ok") => file' = <<208, 80, 1, 0>>
       /\ (Returns("touch") /\ HeaderOnly(file)) =>
            /\ last'.res = [kind |-> "NotFound"]
            /\ file' = file]_vars

\* a reset of a file that held more than the header
C11_Witness ==
    /\ last.op = "reset"
    /\ last.res.kind = "Ok"
    /\ ~last.found
    /\ HeaderOnly(file)

\* C12: a process that is inside init holds the lock, so that no two
\* processes hold it at once; touch, create, disable and reset make no
\* access to the stream without holding the lock, and have released it when
\* they return.
C12_LockHeldThroughout ==
    /\ \A p \in Procs : pc[p] \in {"init_magic", "init_version"} => lock = Some(p)
    /\ last.op \in {"touch", "create", "disable", "reset"} =>
           /\ ~last.bare
           /\ lock = None

\* a process inside reset holds the lock while another waits for it in new
C12_Witness ==
    \E p, q \in Procs :
        /\ pc[p] = "init_magic"
        /\ ctx[p].op = "reset"
        /\ lock = Some(p)
        /\ pc[q] = "init_lock"

\* C13: when touch, create, disable, reset or new returns, with a result or
\* with an error, the lock is free.
C13_LockFreeOnReturn ==
    last.op \in {"touch", "create", "disable", "reset", "new"} => lock = None

\* C14: on a store of well-formed records that two processes have opened,
\* every touch, create and disable returns, and leaves as the list of
\* records, what the call made alone on the list it found returns and
\* leaves, whichever process made the calls before it; reset leaves no
\* record, and between its first step and its return no other call changes
\* the file or returns; the file stays a header followed by whole records.
C14_Linearized ==
    [][/\ \A p \in Procs :
              (pc[p] \in {"init_magic", "init_version"} /\ pc'[p] = pc[p])
                  => (file' = file /\ last' = last)
       /\ \A recs \in {Records(file)}, after \in {Records(file')} :
              /\ Returns("touch") =>
                     \A r \in {SeqTouch(recs, last'.scope[1], last'.user[1],
                                        clock, clock')} :
                         last'.res = r.res /\ after = r.recs
              /\ Returns("create") =>
                     \A r \in {SeqCreate(recs, last'.scope[1], last'.user[1], clock)} :
                         last'.res = r.res /\ after = r.recs
              /\ Returns("disable") =>
                     \A r \in {SeqDisable(recs, last'.scope[1], last'.user)} :
                         last'.res = r.res /\ after = r.recs
              /\ Returns("reset") => (last'.res.kind = "Ok" /\ after = <<>>)
       /\ last' # NoCall => (HasHeader(file') /\ StoredEnd(file') = Len(file'))]_vars

\* two calls were made, one by each process, and the store holds one record,
\* of a pair that no store holds alone when it is opened: one process
\* created it, then the touch of the other found it
C14_Witness ==
    /\ last.op = "touch"
    /\ last.res.kind = "Updated"
    /\ last.scope = Some(PpidScope)
    /\ Len(Stored(file)) = 1
    /\ budget = MaxCalls - 1
    /\ \A p \in Procs : pos[p] = Len(file)

\* C15: a touch whose first enabled record of (scope, user) has a timestamp
\* outside the window returns Outdated with that timestamp and leaves every
\* byte of the file as it was; a touch that finds no enabled record of
\* (scope, user) returns NotFound and leaves every record as it was.
C15_OutdatedNotFoundFrame ==
    [][Returns("touch") =>
         \A of \in {EnabledOf(file, last'.scope[1], last'.user[1])} :
             LET ts == of[1].rec.timestamp
                 within == clock - Timeout <= ts /\ ts <= clock
             IN  /\ (of # <<>> /\ ~within) =>
                        /\ last'.res = [kind |-> "Outdated", time |-> ts]
                        /\ file' = file
                 /\ of = <<>> =>
                        /\ last'.res = [kind |-> "NotFound"]
                        /\ Stored(file') = Stored(file)]_vars

\* C16: on a store of well-formed records touch leaves the length of the
\* file and the number of records as they were; when it returns Updated the
\* bytes outside the timestamp field of the first enabled record of (scope,
\* user) are as they were and that field holds new_time; otherwise no byte
\* changes.
C16_TouchWritesTimestampOnly ==
    [][Returns("touch") =>
         \A of \in {EnabledOf(file, last'.scope[1], last'.user[1])} :
             LET e == of[1]
                 n == from_le_bytes(Slice(file, e.at, SIZE_OF_U16))
                 field == e.at + SIZE_OF_U16 + n - SIZE_OF_BOOL - SIZE_OF_TS
             IN  /\ Len(file') = Len(file)
                 /\ Len(Stored(file')) = Len(Stored(file))
                 /\ IF last'.res.kind = "Updated"
                    THEN /\ \A i \in 1..Len(file) :
                                (i <= field \/ i > field + SIZE_OF_TS)
                                    => file'[i] = file[i]
                         /\ DecodeTime(Slice(file', field, SIZE_OF_TS))
                                = last'.res.new_time
                    ELSE file' = file]_vars

\* a touch that wrote a later timestamp into the second of two records
C16_Witness ==
    /\ last.op = "touch"
    /\ last.res.kind = "Updated"
    /\ last.res.old_time < last.res.new_time
    /\ Len(Stored(file)) = 2
    /\ Stored(file)[2].rec.scope = last.scope[1]
    /\ file # last.before

\* C17: disable(scope, None) leaves disabled every record of scope, and
\* disable(scope, Some(u)) every record of scope and u; every other record
\* keeps its flag; the records keep their places, keys and timestamps, and
\* the file its length.
C17_DisableCovers ==
    [][Returns("disable") =>
         \A before \in {Stored(file)}, after \in {Stored(file')} :
             /\ Len(file') = Len(file)
             /\ Len(after) = Len(before)
             /\ \A i \in 1..Len(before) :
                    /\ after[i].at = before[i].at
                    /\ after[i].rec =
                         IF /\ before[i].rec.scope = last'.scope[1]
                            /\ last'.user \in {None, Some(before[i].rec.auth_user)}
                         THEN [before[i].rec EXCEPT !.enabled = FALSE]
                         ELSE before[i].rec]_vars

\* a disable for one user of a session that left the record of the session's
\* other user enabled
C17_Witness ==
    /\ last.op = "disable"
    /\ last.user # None
    /\ \E i, j \in 1..Len(Stored(file)) :
           LET r == Stored(file)[i].rec
               o == Stored(file)[j].rec
           IN  /\ r.scope = last.scope[1] /\ Some(r.auth_user) = last.user
               /\ ~r.enabled
               /\ Stored(last.before)[i].rec.enabled
               /\ o.scope = last.scope[1] /\ Some(o.auth_user) # last.user
               /\ o.enabled

\* C18: from an empty store on, touch and disable leave the sequence of
\* (scope, user) of the stored records as it was and create leaves it as it
\* was or longer by one at its end; no other step changes it but the
\* truncation of the file by init, in reset and in the reinitialisation of
\* the header.
C18_KeysOnlyGrow ==
    [][\A before \in {Records(file)}, after \in {Records(file')} :
           LET key(r) == <<r.scope, r.auth_user>>
               kept == /\ Len(before) <= Len(after)
                       /\ \A i \in 1..Len(before) : key(after[i]) = key(before[i])
           IN  IF Returns("touch") \/ Returns("disable")
               THEN kept /\ Len(after) = Len(before)
               ELSE IF Returns("create")
               THEN kept /\ Len(after) <= Len(before) + 1
               ELSE \/ Len(after) = Len(before) /\ kept
                    \/ /\ file' = <<>>
                       /\ \E p \in Procs : /\ pc[p] \in {"ready", "init_lock"}
                                            /\ pc'[p] = "init_magic"]_vars

\* a disable, a touch and a create later the two records stored are where
\* they were
C18_Witness ==
    /\ last.op = "create"
    /\ last.res.kind = "Updated"
    /\ Len(Stored(file)) = 2
    /\ Stored(file)[2].rec.scope = last.scope[1]
    /\ \E k \in Keys : auth[k].state = "disabled"
    /\ clock > 0

\* C19: a call that is under way returns: new, reset, touch, create and
\* disable, with a result or with an error.
C19_EveryCallReturns ==
    \A p \in Procs : (pc[p] \notin {"closed", "ready"}) ~> (pc[p] \in {"closed", "ready"})

\* C20: from_bytes of as_bytes(r) returns r; from_bytes of as_bytes(r) with
\* one more byte at its end, of a strict prefix of as_bytes(r), and of
\* as_bytes(r) without its first byte, fails.
C20_RoundTrip ==
    last.op = "from_bytes" =>
        IF last.damage = "none"
        THEN last.res = [ok |-> TRUE, val |-> last.rec]
        ELSE ~last.res.ok

\* a disabled record of a terminal session came back as it was
C20_Witness ==
    /\ last.op = "from_bytes"
    /\ last.damage = "none"
    /\ last.res.ok
    /\ last.res.val.scope.variant = "TTY"
    /\ ~last.res.val.enabled
    /\ last.res.val.timestamp = MaxTime
    /\ file = as_bytes(last.res.val)

\* C21: a touch returns Updated only for a record whose flag byte is 0xFF;
\* a touch whose scan comes to a record of (scope, user) with a flag byte
\* that is neither 0xFF nor 0x00, no enabled record of the pair before it,
\* finds the record invalid: it returns NotFound and cuts the file there.
C21_BadFlagNotEnabled ==
    [][Returns("touch") =>
         \A end \in {StoredEnd(file)} :
             LET scope == last'.scope[1]
                 user == last'.user[1]
                 n == from_le_bytes(Slice(file, end, SIZE_OF_U16))
                 body == Slice(file, end + SIZE_OF_U16, n)
                 badflag ==
                     /\ CanRead(file, end, SIZE_OF_U16)
                     /\ CanRead(file, end + SIZE_OF_U16, n)
                     /\ n > 0
                     /\ body[n] \notin {BOOL_TRUE, BOOL_FALSE}
                     /\ \E t \in 0..MaxTime :
                            ButLast(body)
                              = ButLast(as_bytes(SessionRecord(scope, user, TRUE, t)))
             IN  /\ last'.res.kind = "Updated" => file[pos'["p1"]] = BOOL_TRUE
                 /\ (badflag /\ EnabledOf(file, scope, user) = <<>>) =>
                        /\ last'.res = [kind |-> "NotFound"]
                        /\ file' = SubSeq(file, 1, end)]_vars

\* a touch of the pair of a record with flag byte 01, its timestamp within
\* the timeout, and a whole record after it
C21_Witness ==
    /\ last.op = "touch"
    /\ last.res.kind = "NotFound"
    /\ last.scope = Some(PpidScope)
    /\ last.user = Some(1001)
    /\ last.before = file \o ButLast(RecB(1, TRUE)) \o <<1>> \o RecB(1, TRUE)
    /\ clock = 1

\* C22: matches is true exactly when the scopes are of the same variant and
\* equal in every field of it and the users are equal.
C22_MatchesFieldwise ==
    last.op = "matches" =>
        LET a == last.rec.scope
            b == last.scope
        IN  last.res <=>
                /\ last.rec.auth_user = last.user
                /\ a.variant = b.variant
                /\ a.init_time = b.init_time
                /\ a.variant = "TTY" =>
                       /\ a.tty_device = b.tty_device
                       /\ a.session_pid = b.session_pid
                /\ a.variant = "PPID" => a.group_pid = b.group_pid

\* two TTY scopes that differ in init_time only
C22_Witness ==
    /\ last.op = "matches"
    /\ last.rec.scope = TTY(34816, 1234, 0)
    /\ last.scope = TTY(34816, 1234, 1)
    /\ last.rec.auth_user = last.user
    /\ ~last.res

\* C23: written_between(a, b) is true exactly when a <= b and a <= ts <= b;
\* when a > b it is false.
C23_WrittenBetweenExact ==
    last.op = "written_between" =>
        /\ last.res <=>
               /\ last.early_time <= last.later_time
               /\ last.early_time <= last.rec.timestamp
               /\ last.rec.timestamp <= last.later_time
        /\ last.early_time > last.later_time => ~last.res

\* a > b with the timestamp at or below both
C23_Witness ==
    /\ last.op = "written_between"
    /\ last.early_time > last.later_time
    /\ last.rec.timestamp <= last.later_time
    /\ ~last.res

\* C24: whenever touch returns Updated, new_time is strictly greater than
\* old_time.
C24_NewTimeLater ==
    (last.op = "touch" /\ last.res.kind = "Updated") =>
        last.res.new_time > last.res.old_time

\* C24, as the code has it: new_time is not earlier than old_time; the two
\* are equal when the clock reads the same at the write of old_time and at
\* touch's second reading.
C24_NewTimeNotEarlier ==
    (last.op = "touch" /\ last.res.kind = "Updated") =>
        last.res.new_time >= last.res.old_time

\* a touch that returned Updated with the two times equal, the second call
\* on a store that holds one record
C24_Witness ==
    /\ last.op = "touch"
    /\ last.res.kind = "Updated"
    /\ last.res.new_time = last.res.old_time
    /\ budget = MaxCalls - 1
    /\ Len(Stored(file)) = 1

\* C25: from an empty store, touch(scope, user) returns Updated only if the
\* pair's timestamp was last written, by a create or by a touch that returned
\* Updated, at a time within the timeout of now, with no disable covering
\* the pair, no reset and no header reinitialization since; calls for other
\* scopes or other users never make it so.
C25_UpdatedOnlyIfAuthenticated ==
    [][(Returns("touch") /\ last'.res.kind = "Updated") =>
         \A a \in {auth[<<last'.scope[1], last'.user[1]>>]} :
             /\ a.state = "valid"
             /\ clock - Timeout <= a.time
             /\ a.time <= clock
             /\ last'.res.old_time = a.time]_vars

\* a touch that returned Updated for a timestamp as old as the timeout allows,
\* the other authenticating pair disabled meanwhile
C25_Witness ==
    /\ last.op = "touch"
    /\ last.res.kind = "Updated"
    /\ last.scope = Some(TtyScope)
    /\ last.res.old_time = last.res.new_time - Timeout
    /\ auth[<<PpidScope, 1001>>].state = "disabled"

\* C26: whatever the file held when it was opened, a touch that is the next
\* call after a create of the same pair that returned Created or Updated,
\* made within the timeout, returns Updated. (After one call the pair is
\* recorded as valid only if that call was a create, or a touch that itself
\* returned Updated.)
C26_ReadYourWrites ==
    [][Returns("touch") =>
         \A a \in {auth[<<last'.scope[1], last'.user[1]>>]} :
             (/\ budget = MaxCalls - 1
              /\ a.state = "valid"
              /\ clock - Timeout <= a.time
              /\ a.time <= clock)
                 => last'.res.kind = "Updated"]_vars

\* C27: when init, called by new, truncates the file, the file does not
\* begin with the supported header at that moment, so no record stored under
\* a valid header is deleted by an open.
C27_OpenTruncatesInvalidOnly ==
    [][\A p \in Procs :
         (/\ pc[p] = "init_lock"
          /\ ctx[p].op = "new"
          /\ pc'[p] = "init_magic")
             => (~HasHeader(file) /\ Stored(file) = <<>>)]_vars

\* the scan of a call of op for (scope, user) on data reads a length prefix
\* of zero: the records stored end at one, and the scan does not return
\* before it
ReadsZeroLength(data, op, scope, user) ==
    /\ CanRead(data, StoredEnd(data), SIZE_OF_U16)
    /\ Slice(data, StoredEnd(data), SIZE_OF_U16) = Zeros(SIZE_OF_U16)
    /\ op = "touch" => EnabledOf(data, scope, user[1]) = <<>>
    /\ op = "create" => Of(data, scope, user[1]) = <<>>

\* C28: a touch, create or disable whose scan reads a length prefix of zero
\* returns an error, leaves the file as it was, and does not scan further.
C28_ZeroLengthStops ==
    [][\A op \in {"touch", "create", "disable"} :
         (Returns(op) /\ ReadsZeroLength(file, op, last'.scope[1], last'.user)) =>
             /\ last'.res.kind = "Err"
             /\ file' = file
             /\ pos'["p1"] = StoredEnd(file) + SIZE_OF_U16]_vars

\* C28, as the code has it: the call returns an error, does not truncate the
\* file and does not scan further; touch and create leave the file as it
\* was, disable leaves it with the records before the zero length prefix
\* that it covers disabled.
C28_ZeroLengthStopsAfterWrites ==
    [][\A op \in {"touch", "create", "disable"} :
         (Returns(op) /\ ReadsZeroLength(file, op, last'.scope[1], last'.user)) =>
             \A end \in {StoredEnd(file)} :
                 /\ last'.res.kind = "Err"
                 /\ pos'["p1"] = end + SIZE_OF_U16
                 /\ Len(file') = Len(file)
                 /\ SubSeq(file', end + 1, Len(file')) = SubSeq(file, end + 1, Len(file))
                 /\ op # "disable" => file' = file
                 /\ op = "disable" =>
                        Records(file')
                          = SeqDisable(Records(file), last'.scope[1], last'.user).recs]_vars

\* a disable that returned an error at a zero length prefix after it had
\* disabled a record, a record of the session after the prefix left enabled
C28_Witness ==
    /\ last.op = "disable"
    /\ last.res.kind = "Err"
    /\ last.fault = 0
    /\ file # last.before
    /\ Len(file) = Len(last.before)
    /\ last.scope = Some(PpidScope)
    /\ file[Len(file)] = BOOL_TRUE

\* C29: from an empty store, whenever no call of any process is under way
\* and a process has opened the store, the file is the header followed by
\* records and nothing else: each a length prefix that is not zero and a
\* body of that length that decodes with no bytes left over, the last one
\* ending where the file ends.
C29_WellFormed ==
    (/\ \A p \in Procs : pc[p] \in {"closed", "ready"}
     /\ \E p \in Procs : pc[p] = "ready")
        => (HasHeader(file) /\ StoredEnd(file) = Len(file))

\* both processes have opened the store and none is in a call; the file
\* holds two records, one of them disabled, one written later than the other
C29_Witness ==
    /\ \A p \in Procs : pc[p] = "ready"
    /\ \A s \in {Stored(file)} :
           /\ Len(s) = 2
           /\ ~s[1].rec.enabled
           /\ s[2].rec.enabled
           /\ s[2].rec.timestamp > s[1].rec.timestamp

\* C30: create for a pair whose stored record has a timestamp earlier than
\* now - timeout or later than now returns Updated with old_time the
\* timestamp stored and writes the current time in its place, the record
\* enabled; a touch of a stored pair that is the next call after the call
\* that wrote its timestamp, within the timeout, returns Updated.
C30_CreateIgnoresWindow ==
    [][/\ Returns("create") =>
            LET of == Of(file, last'.scope[1], last'.user[1])
                e == of[1]
                ts == e.rec.timestamp
            IN  (of # <<>> /\ (ts < clock - Timeout \/ ts > clock)) =>
                /\ last'.res = [kind |-> "Updated", old_time |-> ts,
                                new_time |-> clock]
                /\ file' = Overwrite(file, e.at + SIZE_OF_U16,
                                     as_bytes([e.rec EXCEPT !.enabled = TRUE,
                                                            !.timestamp = clock]))
       /\ Returns("touch") =>
            \A a \in {auth[<<last'.scope[1], last'.user[1]>>]} :
                (/\ budget = MaxCalls - 1
                 /\ a.state = "valid"
                 /\ clock - Timeout <= a.time
                 /\ a.time <= clock
                 /\ Of(file, last'.scope[1], last'.user[1]) # <<>>)
                    => last'.res.kind = "Updated"]_vars

\* a create that returned Updated for a timestamp in the future
C30_Witness ==
    /\ last.op = "create"
    /\ last.res.kind = "Updated"
    /\ last.res.old_time > last.res.new_time
    /\ Of(file, last.scope[1], last.user[1])[1].rec.timestamp = clock

\* C31: every new that reinitialized the file has logged a message at info
\* level and none at error level.
C31_ReinitLogged ==
    (last.op = "new" /\ ~last.found /\ last.res.kind = "Ok") =>
        /\ \E i \in 1..Len(last.log) : last.log[i][1] = "info"
        /\ \A i \in 1..Len(last.log) : last.log[i][1] # "error"

\* C31, as the code has it: a new that reinitialized the file has logged
\* nothing but messages at info level; the match on the magic number logs
\* one exactly when the stream held the two bytes of a magic number (none
\* for an empty stream or a stream of one byte), the match on the version
\* logs one whenever it reinitializes.
C31_ReinitLoggedUnlessNoMagic ==
    [][/\ (last'.op = "new" /\ ~last'.found /\ last'.res.kind = "Ok") =>
            \A i \in 1..Len(last'.log) : last'.log[i][1] = "info"
       /\ \A p \in Procs :
            /\ (pc[p] = "closed" /\ pc'[p] = "init_lock") =>
                   (ctx'[p].log # <<>> <=> CanRead(file, 0, SIZE_OF_U16))
            /\ (pc[p] = "read_version" /\ pc'[p] = "init_lock") =>
                   /\ Len(ctx'[p].log) = Len(ctx[p].log) + 1
                   /\ ctx'[p].log[Len(ctx'[p].log)][1] = "info"]_vars

\* a new that reinitialized the file and logged nothing
C31_Witness ==
    /\ last.op = "new"
    /\ ~last.found
    /\ last.res.kind = "Ok"
    /\ last.log = <<>>
    /\ file = Header

C34_DeliveredByPrefix ==
    last.op = "log" =>
        /\ \A i \in 1..Len(last.given) :
               LET g == last.given[i]
                   n == Len(g)
                   P == IF n >= 2 /\ g[n - 1] = ":" /\ g[n] = ":"
                        THEN SubSeq(g, 1, n - 2) ELSE g
                   T == last.target
                   m == Len(P) + 2
               IN  (\E j \in 1..Len(last.delivered) : last.delivered[j] = i)
                       <=> \/ T = P
                           \/ /\ Len(T) >= m
                              /\ SubSeq(T, 1, m) = P \o <<":", ":">>
        /\ \A j, k \in 1..Len(last.delivered) :
               last.delivered[j] = last.delivered[k] => j = k

\* a record handed to the second logger and not to the first, whose prefix
\* its target begins with, no "::" after it
C34_Witness ==
    /\ last.op = "log"
    /\ last.given = << <<"a">>, <<"a", "_">> >>
    /\ last.target = <<"a", "_", ":", ":">>
    /\ last.delivered = <<2>>

====
